---- MODULE Spec2Model ----
(***************************************************************************)
(* ScrapX: the negotiation workflow (NegotiationDialog,                    *)
(* NegotiationsManager, MyNegotiations over the negotiations table and its *)
(* row-level security policies), the listing status workflow (MyListings,  *)
(* Listings, WalletConnectDialog over scrap_listings) and the coordinate   *)
(* functions (update_geolocation, get_listing_coordinates).                *)
(***************************************************************************)
EXTENDS Integers, Sequences, FiniteSets, TLC

\* ------------------------------------------------------------------------
\* Bounds of the model
\* ------------------------------------------------------------------------

\* rows of negotiations the views of one seller and one dealer browser create
MaxNegotiations ==
    1

\* rows of negotiations two browsers of the same dealer create
MaxRaceNegotiations ==
    2

\* rows of negotiations created through the data API
MaxApiNegotiations ==
    1

MaxLat ==
    1

MaxLng ==
    2

\* materials of one mixed listing
MaxMaterials ==
    2

\* rows CreateListing inserts into scrap_listings
MaxCreated ==
    3

\* reward transfers counted per listing
MaxTransfers ==
    2

\* calls of navigator.geolocation.getCurrentPosition by one ScrapPickupMap
MaxLocationRequests ==
    3

\* the rows listing_requests can hold
MaxRequests ==
    2

\* the updates of NegotiationsManager that can be in flight at once
MaxUpdates ==
    2

\* the fetches of MyNegotiations that can be in flight at once
MaxFetches ==
    2

\* the background uploads of ImageUploader that can be in flight at once
MaxUploads ==
    2

\* ------------------------------------------------------------------------
\* Users, browsers, listings
\* ------------------------------------------------------------------------
Seller ==
    "alice"

Dealer ==
    "bob"

Other ==
    "carol"

Users ==
    {Seller, Dealer, Other}

ListingIds ==
    {"l1", "l2"}

\* the listing the negotiations are about
NegListing ==
    "l1"

\* scrap_listings.seller_id
ListingSeller(l) ==
    Seller

\* one browser of the seller, two browsers of the same dealer
Browsers ==
    {"sb", "db1", "db2"}

BrowserUser(b) ==
    IF b = "sb" THEN Seller ELSE Dealer

MainBrowsers ==
    {"sb", "db1"}

RaceBrowsers ==
    {"db1", "db2"}

Statuses ==
    {"pending", "countered", "accepted", "rejected"}

Terminal ==
    {"accepted", "rejected"}

\* SQL NULL / JS null; a present value v is <<v>>
NULL ==
    <<>>

\* amounts typed into an offer field, in thousandths of a rupee: 0 stands
\* for an invalid entry, 1000 is one rupee
Offers ==
    {0, 1000}

\* amounts typed into the counter offer field of NegotiationsManager, in
\* thousandths of a rupee: MaxSmallAmount is below half a paisa
MaxSmallAmount ==
    4

CounterAmounts ==
    Offers \cup (1..MaxSmallAmount)

\* a number of thousandths as a NUMERIC(10, 2) column stores it, in paise:
\* rounded to the nearest paisa, a half away from zero
Numeric10_2(amount) ==
    (amount + 5) \div 10

VARIABLES
    schema,              \* which policy script is in force on negotiations
    rowLimit,            \* the bound on the rows of negotiations
    negotiations,        \* the negotiations table; a row's id is its index
    page,                \* the page a browser shows
    open,                \* NegotiationDialog: open
    existingNegotiation, \* NegotiationDialog: existingNegotiation
    mgrNegotiations,     \* NegotiationsManager: negotiations (ids shown)
    mgrError,            \* NegotiationsManager: error
    activeTab,           \* MyNegotiations: activeTab
    myNegotiations,      \* MyNegotiations: negotiations (ids shown)
    last,                \* the last writing call and the answer it got
    listingStatus,       \* scrap_listings.status
    myListings,          \* MyListings: listings (id -> status as loaded)
    mySelected,          \* MyListings: selectedListingId, showWalletDialog
    allListings,         \* Listings: listings (id -> status as loaded)
    allSelected,         \* Listings: selectedListingId, showWalletDialog
    transfers,           \* reward tokens the treasury sent, by the listing sold
    geolocation,         \* scrap_listings.geolocation: NULL or <<x, y>>
    geoArgs,             \* the arguments of the last update_geolocation
    geoResult,           \* the answer of the last call of a coordinate function
    scrapInserted,       \* the rows CreateListing has inserted into scrap_listings
    createPage,          \* the page the browser of CreateListing shows
    lastSubmit,          \* the last onSubmit of CreateListing and how it ended
    gettingCurrentLocation, \* ScrapPickupMap: gettingCurrentLocation
    currentLocation,     \* ScrapPickupMap: currentLocation is set
    locationRequests,    \* the getCurrentPosition calls made and their timers
    effectDue,           \* the effect on [getUserLocation, currentLocation] is due
    locationFailed,      \* a request has failed since the last action of the user
    listing,             \* PickupRequest: the status of the listing as loaded
    requestSent,         \* PickupRequest: requestSent
    requestChecked,      \* RequestListingDialog: handleSubmit is past its check
    listing_requests,    \* the listing_requests table; a row's id is its index
    processingId,        \* NegotiationsManager: processingId
    updates,             \* the updates NegotiationsManager has sent and not yet got answered
    fetches,             \* the fetches MyNegotiations has sent and not yet got answered
    loading,             \* MyNegotiations: loading
    lastFetch,           \* the last answer that set the list of MyNegotiations
    imageUrl,            \* CreateListing: the imageUrl of the form
    uploadedImage,       \* ImageUploader: uploadedImage, the image shown
    uploads,             \* the background uploads not yet completed, by file
    selectedFile         \* the file the user selected last; none after removeImage

viewVars ==
    <<page, open, existingNegotiation, mgrNegotiations, mgrError, activeTab,
      myNegotiations>>

negVars ==
    <<schema, rowLimit, negotiations, viewVars, last>>

listVars ==
    <<listingStatus, myListings, mySelected, allListings, allSelected, transfers>>

geoVars ==
    <<geolocation, geoArgs, geoResult>>

imageVars ==
    <<imageUrl, uploadedImage, uploads, selectedFile>>

createVars ==
    <<scrapInserted, createPage, lastSubmit, imageVars>>

locationVars ==
    <<gettingCurrentLocation, currentLocation, locationRequests, effectDue,
      locationFailed>>

requestVars ==
    <<listing, requestSent, requestChecked, listing_requests>>

processingVars ==
    <<processingId, updates>>

tabVars ==
    <<fetches, loading, lastFetch>>

restVars ==
    <<createVars, locationVars, requestVars, processingVars, tabVars>>

vars ==
    <<negVars, listVars, geoVars, restVars>>

NegIds ==
    DOMAIN negotiations

NoCall ==
    [op |-> "none", user |-> "none", neg |-> 0, from |-> "none", result |-> "none"]

Call(op, user, neg, result) ==
    [op |-> op, user |-> user, neg |-> neg,
     from |-> IF neg \in NegIds THEN negotiations[neg].status ELSE "none",
     result |-> result]

\* ------------------------------------------------------------------------
\* Row-level security on negotiations
\* ------------------------------------------------------------------------

\* FOR SELECT USING (auth.uid() = dealer_id OR auth.uid() = seller_id)
SelectPolicy(uid, row) ==
    uid = row.dealer_id \/ uid = row.seller_id

\* FOR INSERT WITH CHECK (auth.uid() = dealer_id)
InsertPolicy(uid, row) ==
    uid = row.dealer_id

\* FOR UPDATE USING of the two policies; permissive policies are OR-ed
UpdateUsing(uid, row) ==
    uid = row.dealer_id \/ uid = row.seller_id

\* "Dealers can update their own negotiations" WITH CHECK, on the new row
DealerUpdateCheck(uid, new) ==
    IF schema = "rls_policies"
    THEN uid = new.dealer_id /\ new.status # "accepted" /\ new.status # "rejected"
    ELSE uid = new.dealer_id

\* "Sellers can update negotiations" WITH CHECK, on the new row
SellerUpdateCheck(uid, new) ==
    uid = new.seller_id

UpdateCheck(uid, new) ==
    DealerUpdateCheck(uid, new) \/ SellerUpdateCheck(uid, new)

UpdateOutcomeMut(uid, n, filter, new) ==
    IF ~(n \in NegIds /\ filter)
    THEN "nomatch"
    ELSE IF ~UpdateCheck(uid, new) THEN "rls_error" ELSE "ok"

\* supabase.from('negotiations').update(..).eq('id', n)[.eq(..)] as user uid:
\* "nomatch" answers without an error, "rls_error" is an error answer
UpdateOutcome(uid, n, filter, new) ==
    IF ~(n \in NegIds /\ filter /\ SelectPolicy(uid, negotiations[n])
          /\ UpdateUsing(uid, negotiations[n]))
    THEN "nomatch"
    ELSE IF ~UpdateCheck(uid, new) THEN "rls_error" ELSE "ok"

Updated(n, new, outcome) ==
    IF outcome = "ok" THEN [negotiations EXCEPT ![n] = new] ELSE negotiations

\* an answer the client treats as a failure (error is set)
IsError(result) ==
    result \in {"rls_error", "net_error"}


\* ------------------------------------------------------------------------
\* PickupRequest page: NegotiationsManager for the owner, NegotiationDialog
\* for any other signed-in user
\* ------------------------------------------------------------------------
IsOwner(b) ==
    BrowserUser(b) = ListingSeller(NegListing)

\* NegotiationsManager.fetchNegotiations with listingId:
\* .eq('listing_id', listingId), any status
MgrFetched(uid) ==
    {n \in NegIds : /\ negotiations[n].listing_id = NegListing
                    /\ SelectPolicy(uid, negotiations[n])}

\* the state of the views of a browser that shows none of them
ResetViews(b) ==
    /\ open' = [open EXCEPT ![b] = FALSE]
    /\ existingNegotiation' = [existingNegotiation EXCEPT ![b] = NULL]
    /\ activeTab' = [activeTab EXCEPT ![b] = "pending"]
    /\ myNegotiations' = [myNegotiations EXCEPT ![b] = {}]

\* .from('listing_requests').eq('listing_id').eq('buyer_id').eq('status', 'pending')
PendingRequests(uid, l) ==
    {r \in DOMAIN listing_requests : /\ listing_requests[r].listing_id = l
                                     /\ listing_requests[r].buyer_id = uid
                                     /\ listing_requests[r].status = "pending"}

\* the request controls of PickupRequest: shown to a user who is not the
\* owner while the listing as loaded is active and no request was sent
RequestControls(b) ==
    /\ ~IsOwner(b)
    /\ listing[b] = "active"
    /\ ~requestSent[b]

\* leaving the page or loading it again unmounts its components: a new
\* NegotiationsManager starts with processingId null, and the answers to the
\* updates and fetches of the old components no longer reach a mounted one
Unmount(b) ==
    /\ processingId' = [processingId EXCEPT ![b] = NULL]
    /\ updates' = [i \in DOMAIN updates |->
                     IF updates[i].browser = b
                     THEN [updates[i] EXCEPT !.mounted = FALSE]
                     ELSE updates[i]]
    /\ fetches' = [i \in DOMAIN fetches |->
                     IF fetches[i].browser = b
                     THEN [fetches[i] EXCEPT !.mounted = FALSE]
                     ELSE fetches[i]]
    /\ loading' = [loading EXCEPT ![b] = FALSE]
    /\ UNCHANGED lastFetch

\* the answers the insert of RequestListingDialog.handleSubmit can get from
\* the table the dialog is written for, which has the columns of
\* migration.sql and is_negotiation and no unique constraint besides its id
RequestInsertAnswers ==
    {"ok", "net_error"}

\* RequestListingDialog.handleSubmit up to the answer of its check: invalid
\* input, a failed query and a pending request of the user all end the call
RequestCheck(b, quantity, price) ==
    /\ page[b] = "listing"
    /\ RequestControls(b)
    /\ ~open[b]
    /\ ~requestChecked[b]
    /\ \E net \in BOOLEAN :
         requestChecked' =
           [requestChecked EXCEPT ![b] =
              /\ ~(quantity <= 0 \/ price <= 0)
              /\ net
              /\ PendingRequests(BrowserUser(b), NegListing) = {}]
    /\ UNCHANGED <<listing, requestSent, listing_requests, negVars, listVars, geoVars,
                   createVars, locationVars, processingVars, tabVars>>

\* RequestListingDialog.handleSubmit from its insert on: on success the dialog
\* closes and handleRequestSent sets requestSent
RequestInsert(b) ==
    /\ requestChecked[b]
    /\ requestChecked' = [requestChecked EXCEPT ![b] = FALSE]
    /\ \E answer \in RequestInsertAnswers :
         /\ answer = "ok" => Len(listing_requests) < MaxRequests
         /\ IF answer = "ok"
            THEN /\ listing_requests' =
                      Append(listing_requests,
                             [listing_id |-> NegListing, buyer_id |-> BrowserUser(b),
                              status |-> "pending"])
                 /\ requestSent' = [requestSent EXCEPT ![b] = TRUE]
            ELSE UNCHANGED <<listing_requests, requestSent>>
    /\ UNCHANGED <<listing, negVars, listVars, geoVars, createVars, locationVars,
                   processingVars, tabVars>>

\* entering /pickup/:id: fetchListing loads the listing and looks for a pending
\* request of the user; the owner's NegotiationsManager mounts and fetches
OpenPickupRequest(b) ==
    /\ page' = [page EXCEPT ![b] = "listing"]
    /\ ResetViews(b)
    /\ \E net \in BOOLEAN :
         IF IsOwner(b) /\ net
         THEN /\ mgrNegotiations' = [mgrNegotiations EXCEPT ![b] = MgrFetched(BrowserUser(b))]
              /\ mgrError' = [mgrError EXCEPT ![b] = FALSE]
         ELSE /\ mgrNegotiations' = [mgrNegotiations EXCEPT ![b] = {}]
              /\ mgrError' = [mgrError EXCEPT ![b] = IsOwner(b)]
    /\ listing' = [listing EXCEPT ![b] = listingStatus[NegListing]]
    /\ \E net \in BOOLEAN :
         requestSent' = [requestSent EXCEPT ![b] =
                           net /\ PendingRequests(BrowserUser(b), NegListing) # {}]
    /\ Unmount(b)
    /\ UNCHANGED <<schema, rowLimit, negotiations, last, listVars, geoVars,
                   createVars, locationVars, requestChecked, listing_requests>>

\* NegotiationDialog.checkExistingNegotiation:
\* .eq('listing_id').eq('dealer_id').order('created_at', desc).limit(1)
LatestNegotiation(uid, l) ==
    LET mine == {n \in NegIds : /\ negotiations[n].listing_id = l
                                /\ negotiations[n].dealer_id = uid
                                /\ SelectPolicy(uid, negotiations[n])}
    IN  IF mine = {} THEN NULL
        ELSE LET n == CHOOSE m \in mine : \A k \in mine : k <= m
             IN  <<[id |-> n, status |-> negotiations[n].status]>>

\* useEffect on open: checkExistingNegotiation; a failed query keeps the
\* existingNegotiation the component already holds
DlgOpen(b) ==
    /\ page[b] = "listing"
    /\ RequestControls(b)
    /\ ~open[b]
    /\ open' = [open EXCEPT ![b] = TRUE]
    /\ \E net \in BOOLEAN :
         existingNegotiation' =
           IF net
           THEN [existingNegotiation EXCEPT ![b] = LatestNegotiation(BrowserUser(b), NegListing)]
           ELSE existingNegotiation
    /\ UNCHANGED <<schema, rowLimit, negotiations, page, mgrNegotiations, mgrError,
                   activeTab, myNegotiations, last, listVars, geoVars, restVars>>

\* Cancel, or closing the dialog
DlgClose(b) ==
    /\ open[b]
    /\ open' = [open EXCEPT ![b] = FALSE]
    /\ UNCHANGED <<schema, rowLimit, negotiations, page, existingNegotiation,
                   mgrNegotiations, mgrError, activeTab, myNegotiations, last,
                   listVars, geoVars, restVars>>

\* the row handleSubmit inserts
NegotiationData(uid, l, offer) ==
    [listing_id |-> l, dealer_id |-> uid, seller_id |-> ListingSeller(l),
     initial_offer |-> Numeric10_2(offer), counter_offer |-> NULL, status |-> "pending"]

InsertAnswersMut ==
    {"ok", "net_error", "23505"}

\* the answers the insert of handleSubmit can get: the table has no unique
\* constraint besides its generated id and listings are never removed, so
\* neither 23505 nor 23503 is among them
InsertAnswers ==
    {"ok", "net_error"}

\* handleSubmit: the form is shown only while existingNegotiation is null
DlgHandleSubmit(b, offer) ==
    /\ open[b]
    /\ existingNegotiation[b] = NULL
    /\ LET uid == BrowserUser(b)
           row == NegotiationData(uid, NegListing, offer)
       IN  IF offer <= 0
           THEN /\ last' = Call("handleSubmit", uid, 0, "invalid")
                /\ UNCHANGED <<negotiations, open>>
           ELSE \E answer \in InsertAnswers :
                  /\ answer = "ok" => Len(negotiations) < rowLimit
                  /\ LET result == IF answer = "ok" /\ ~InsertPolicy(uid, row)
                                   THEN "rls_error" ELSE answer
                     IN  IF result = "ok"
                         THEN /\ negotiations' = Append(negotiations, row)
                              /\ open' = [open EXCEPT ![b] = FALSE]
                              /\ last' = Call("handleSubmit", uid, Len(negotiations) + 1, "ok")
                         ELSE IF result = "23505"
                         THEN \* update({initial_offer, status: 'pending'}) of the pair
                              /\ negotiations' =
                                   [n \in NegIds |->
                                      IF /\ negotiations[n].listing_id = NegListing
                                         /\ negotiations[n].dealer_id = uid
                                      THEN [negotiations[n] EXCEPT !.initial_offer = Numeric10_2(offer),
                                                                   !.status = "pending"]
                                      ELSE negotiations[n]]
                              /\ open' = [open EXCEPT ![b] = FALSE]
                              /\ last' = Call("handleSubmit", uid, 0, "ok")
                         ELSE \* the fallback rpc insert_negotiation_with_seller is
                              \* not a function of the schema: the first error is thrown
                              /\ last' = Call("handleSubmit", uid, 0, result)
                              /\ UNCHANGED <<negotiations, open>>
    /\ UNCHANGED <<schema, rowLimit, page, existingNegotiation, mgrNegotiations,
                   mgrError, activeTab, myNegotiations, listVars, geoVars, restVars>>

\* the update the accept and reject handlers of the three views send
StatusPatch(row, status) ==
    [row EXCEPT !.status = status]

\* the Accept Offer / Decline buttons under existingNegotiation.status === 'countered'
DlgRespond(b, op, status) ==
    /\ open[b]
    /\ existingNegotiation[b] # NULL
    /\ existingNegotiation[b][1].status = "countered"
    /\ LET uid == BrowserUser(b)
           n == existingNegotiation[b][1].id
           new == StatusPatch(negotiations[n], status)
       IN  \E net \in BOOLEAN :
             LET result == IF net THEN UpdateOutcome(uid, n, TRUE, new) ELSE "net_error"
             IN  /\ negotiations' = Updated(n, new, result)
                 /\ open' = IF IsError(result) THEN open ELSE [open EXCEPT ![b] = FALSE]
                 /\ last' = Call(op, uid, n, result)
    /\ UNCHANGED <<schema, rowLimit, page, existingNegotiation, mgrNegotiations,
                   mgrError, activeTab, myNegotiations, listVars, geoVars, restVars>>

DlgAcceptCounter(b) ==
    DlgRespond(b, "dlgAccept", "accepted")

DlgDeclineCounter(b) ==
    DlgRespond(b, "dlgDecline", "rejected")

\* the Refresh / Try Again button of NegotiationsManager
MgrFetch(b) ==
    /\ page[b] = "listing"
    /\ IsOwner(b)
    /\ \E net \in BOOLEAN :
         IF net
         THEN /\ mgrError' = [mgrError EXCEPT ![b] = FALSE]
              /\ mgrNegotiations' = [mgrNegotiations EXCEPT ![b] = MgrFetched(BrowserUser(b))]
         ELSE /\ mgrError' = [mgrError EXCEPT ![b] = TRUE]
              /\ UNCHANGED mgrNegotiations
    /\ UNCHANGED <<schema, rowLimit, negotiations, page, open, existingNegotiation,
                   activeTab, myNegotiations, last, listVars, geoVars, restVars>>

\* the update handleCounterOffer sends
CounterPatch(row, amount) ==
    [row EXCEPT !.counter_offer = <<Numeric10_2(amount)>>, !.status = "countered"]

\* a card with its three buttons is rendered for every row of the list
MgrButtons(b, n) ==
    /\ page[b] = "listing"
    /\ IsOwner(b)
    /\ ~mgrError[b]
    /\ n \in mgrNegotiations[b]
    /\ n \in NegIds

\* the three handlers share their shape: update by id, then drop the row
\* from the local list unless the answer is an error
MgrUpdate(b, n, op, new) ==
    /\ \E net \in BOOLEAN :
         LET uid == BrowserUser(b)
             result == IF net THEN UpdateOutcome(uid, n, TRUE, new) ELSE "net_error"
         IN  /\ negotiations' = Updated(n, new, result)
             /\ mgrNegotiations' =
                  IF IsError(result) THEN mgrNegotiations
                  ELSE [mgrNegotiations EXCEPT ![b] = @ \ {n}]
             /\ last' = Call(op, uid, n, result)
    /\ UNCHANGED <<schema, rowLimit, page, open, existingNegotiation, mgrError,
                   activeTab, myNegotiations, listVars, geoVars, restVars>>

MgrAcceptOffer(b, n) ==
    /\ MgrButtons(b, n)
    /\ MgrUpdate(b, n, "mgrAccept", StatusPatch(negotiations[n], "accepted"))

MgrRejectOffer(b, n) ==
    /\ MgrButtons(b, n)
    /\ MgrUpdate(b, n, "mgrReject", StatusPatch(negotiations[n], "rejected"))

MgrCounterOffer(b, n, amount) ==
    /\ MgrButtons(b, n)
    /\ IF amount <= 0
       THEN /\ last' = Call("mgrCounter", BrowserUser(b), n, "invalid")
            /\ UNCHANGED <<schema, rowLimit, negotiations, viewVars, listVars, geoVars, restVars>>
       ELSE MgrUpdate(b, n, "mgrCounter", CounterPatch(negotiations[n], amount))

\* the handlers of NegotiationsManager with the update in flight.
\* A button of a card is disabled only while processingId is the id of the
\* card; the handler sets processingId and sends its update, and an invalid
\* counter offer returns through the finally, which sets processingId null
MgrSend(b, n, op, amount) ==
    /\ MgrButtons(b, n)
    /\ processingId[b] # <<n>>
    /\ IF op = "mgrCounter" /\ amount <= 0
       THEN /\ processingId' = [processingId EXCEPT ![b] = NULL]
            /\ UNCHANGED updates
       ELSE /\ Len(updates) < MaxUpdates
            /\ processingId' = [processingId EXCEPT ![b] = <<n>>]
            /\ updates' = Append(updates, [browser |-> b, id |-> n, op |-> op,
                                           amount |-> IF op = "mgrCounter" THEN amount ELSE 0,
                                           mounted |-> TRUE])
    /\ UNCHANGED <<schema, rowLimit, negotiations, viewVars, last, listVars, geoVars,
                   createVars, locationVars, requestVars, tabVars>>

\* the row an update in flight writes, from the row the table holds
UpdatePatch(u) ==
    IF u.op = "mgrAccept" THEN StatusPatch(negotiations[u.id], "accepted")
    ELSE IF u.op = "mgrReject" THEN StatusPatch(negotiations[u.id], "rejected")
    ELSE CounterPatch(negotiations[u.id], u.amount)

\* the answer to the update i arrives: the handler drops the row from the
\* local list unless the answer is an error, and its finally sets
\* processingId null
MgrAnswer(i) ==
    /\ i \in DOMAIN updates
    /\ LET u == updates[i]
           uid == BrowserUser(u.browser)
       IN  \E net \in BOOLEAN :
             LET result == IF net THEN UpdateOutcome(uid, u.id, TRUE, UpdatePatch(u))
                           ELSE "net_error"
             IN  /\ negotiations' = Updated(u.id, UpdatePatch(u), result)
                 /\ IF u.mounted
                    THEN /\ mgrNegotiations' =
                              IF IsError(result) THEN mgrNegotiations
                              ELSE [mgrNegotiations EXCEPT ![u.browser] = @ \ {u.id}]
                         /\ processingId' = [processingId EXCEPT ![u.browser] = NULL]
                    ELSE UNCHANGED <<mgrNegotiations, processingId>>
    /\ updates' = [j \in 1..(Len(updates) - 1) |->
                     IF j < i THEN updates[j] ELSE updates[j + 1]]
    /\ UNCHANGED <<schema, rowLimit, page, open, existingNegotiation, mgrError,
                   activeTab, myNegotiations, last, listVars, geoVars,
                   createVars, locationVars, requestVars, tabVars>>

\* ------------------------------------------------------------------------
\* MyNegotiations page
\* ------------------------------------------------------------------------

\* .or(dealer_id.eq.uid, seller_id.eq.uid).eq('status', tab)
MyFetched(uid, tab, table) ==
    {n \in DOMAIN table : /\ table[n].dealer_id = uid \/ table[n].seller_id = uid
                          /\ table[n].status = tab}

\* entering /my-negotiations: the pending tab is fetched
OpenMyNegotiations(b) ==
    /\ page' = [page EXCEPT ![b] = "negotiations"]
    /\ open' = [open EXCEPT ![b] = FALSE]
    /\ existingNegotiation' = [existingNegotiation EXCEPT ![b] = NULL]
    /\ mgrNegotiations' = [mgrNegotiations EXCEPT ![b] = {}]
    /\ mgrError' = [mgrError EXCEPT ![b] = FALSE]
    /\ activeTab' = [activeTab EXCEPT ![b] = "pending"]
    /\ \E net \in BOOLEAN :
         myNegotiations' =
           [myNegotiations EXCEPT ![b] =
              IF net THEN MyFetched(BrowserUser(b), "pending", negotiations) ELSE {}]
    /\ listing' = [listing EXCEPT ![b] = "none"]
    /\ requestSent' = [requestSent EXCEPT ![b] = FALSE]
    /\ Unmount(b)
    /\ UNCHANGED <<schema, rowLimit, negotiations, last, listVars, geoVars,
                   createVars, locationVars, requestChecked, listing_requests>>

\* onValueChange={setActiveTab}, then the effect fetches; a failed fetch
\* leaves the list of the tab shown before
MySetActiveTab(b, tab) ==
    /\ page[b] = "negotiations"
    /\ tab # activeTab[b]
    /\ activeTab' = [activeTab EXCEPT ![b] = tab]
    /\ \E net \in BOOLEAN :
         myNegotiations' =
           IF net
           THEN [myNegotiations EXCEPT ![b] = MyFetched(BrowserUser(b), tab, negotiations)]
           ELSE myNegotiations
    /\ UNCHANGED <<schema, rowLimit, negotiations, page, open, existingNegotiation,
                   mgrNegotiations, mgrError, last, listVars, geoVars, restVars>>

\* MyNegotiations with the fetch in flight: onValueChange={setActiveTab}, and
\* the effect on activeTab calls fetchNegotiations, which sets loading and
\* queries the rows of the tab it was called for
MySelectTab(b, tab) ==
    /\ page[b] = "negotiations"
    /\ tab # activeTab[b]
    /\ Len(fetches) < MaxFetches
    /\ activeTab' = [activeTab EXCEPT ![b] = tab]
    /\ loading' = [loading EXCEPT ![b] = TRUE]
    /\ fetches' = Append(fetches, [browser |-> b, tab |-> tab, mounted |-> TRUE])
    /\ UNCHANGED <<schema, rowLimit, negotiations, page, open, existingNegotiation,
                   mgrNegotiations, mgrError, myNegotiations, last, lastFetch,
                   listVars, geoVars, createVars, locationVars, requestVars,
                   processingVars>>

\* the answer to the fetch i arrives: setNegotiations with the rows of the
\* tab of the fetch unless the query failed, then setLoading(false)
MyFetchAnswer(i) ==
    /\ i \in DOMAIN fetches
    /\ LET f == fetches[i]
       IN  \E net \in BOOLEAN :
             IF f.mounted
             THEN /\ loading' = [loading EXCEPT ![f.browser] = FALSE]
                  /\ IF net
                     THEN /\ myNegotiations' =
                               [myNegotiations EXCEPT ![f.browser] =
                                  MyFetched(BrowserUser(f.browser), f.tab, negotiations)]
                          /\ lastFetch' = [browser |-> f.browser, tab |-> f.tab,
                                           activeTab |-> activeTab[f.browser]]
                     ELSE UNCHANGED <<myNegotiations, lastFetch>>
             ELSE UNCHANGED <<loading, myNegotiations, lastFetch>>
    /\ fetches' = [j \in 1..(Len(fetches) - 1) |->
                     IF j < i THEN fetches[j] ELSE fetches[j + 1]]
    /\ UNCHANGED <<schema, rowLimit, negotiations, page, open, existingNegotiation,
                   mgrNegotiations, mgrError, activeTab, last,
                   listVars, geoVars, createVars, locationVars, requestVars,
                   processingVars>>

\* the card footer: seller buttons on the pending tab, buyer buttons on the
\* countered tab
MyButtons(b, n) ==
    /\ page[b] = "negotiations"
    /\ n \in myNegotiations[b]
    /\ n \in NegIds
    /\ \/ activeTab[b] = "pending" /\ negotiations[n].seller_id = BrowserUser(b)
       \/ activeTab[b] = "countered" /\ negotiations[n].dealer_id = BrowserUser(b)

\* the filter of both handlers besides the id: .eq('dealer_id', user.id)
MyFilter(uid, n) ==
    negotiations[n].dealer_id = uid

\* handleAcceptCounterOffer / handleRejectCounterOffer: update, then
\* fetchNegotiations() unless the answer is an error
MyRespond(b, n, op, status) ==
    /\ MyButtons(b, n)
    /\ LET uid == BrowserUser(b)
           new == StatusPatch(negotiations[n], status)
       IN  \E net \in BOOLEAN, refetch \in BOOLEAN :
             LET result == IF net THEN UpdateOutcome(uid, n, MyFilter(uid, n), new)
                           ELSE "net_error"
             IN  /\ negotiations' = Updated(n, new, result)
                 /\ myNegotiations' =
                      IF ~IsError(result) /\ refetch
                      THEN [myNegotiations EXCEPT ![b] =
                              MyFetched(uid, activeTab[b], negotiations')]
                      ELSE myNegotiations
                 /\ last' = Call(op, uid, n, result)
    /\ UNCHANGED <<schema, rowLimit, page, open, existingNegotiation, mgrNegotiations,
                   mgrError, activeTab, listVars, geoVars, restVars>>

MyAcceptCounterOffer(b, n) ==
    MyRespond(b, n, "myAccept", "accepted")

MyRejectCounterOffer(b, n) ==
    MyRespond(b, n, "myReject", "rejected")


\* ------------------------------------------------------------------------
\* The data API on negotiations, open to every authenticated user
\* ------------------------------------------------------------------------

\* POST /negotiations as user uid: the INSERT policy checks the new row
ApiInsert(uid, dealer, seller) ==
    /\ Len(negotiations) < rowLimit
    /\ LET row == [listing_id |-> NegListing, dealer_id |-> dealer, seller_id |-> seller,
                   initial_offer |-> 100, counter_offer |-> NULL, status |-> "pending"]
           result == IF InsertPolicy(uid, row) THEN "ok" ELSE "rls_error"
       IN  /\ negotiations' = IF result = "ok" THEN Append(negotiations, row)
                              ELSE negotiations
           /\ last' = Call("apiInsert", uid, Len(negotiations) + 1, result)
    /\ UNCHANGED <<schema, rowLimit, viewVars, listVars, geoVars, restVars>>

\* insert_negotiation(p_listing_id, p_dealer_id, p_initial_offer, p_seller_id):
\* SECURITY DEFINER, EXECUTE granted to authenticated; no policy applies
InsertNegotiation(uid, p_dealer_id, p_seller_id) ==
    /\ Len(negotiations) < rowLimit
    /\ negotiations' = Append(negotiations,
                              [listing_id |-> NegListing, dealer_id |-> p_dealer_id,
                               seller_id |-> p_seller_id, initial_offer |-> 100,
                               counter_offer |-> NULL, status |-> "pending"])
    /\ last' = Call("insert_negotiation", uid, Len(negotiations) + 1, "ok")
    /\ UNCHANGED <<schema, rowLimit, viewVars, listVars, geoVars, restVars>>

\* the single-column updates a client can send
ApiPatches(row) ==
    {[row EXCEPT !.status = st] : st \in Statuses}
      \cup {[row EXCEPT !.dealer_id = u] : u \in Users}
      \cup {[row EXCEPT !.seller_id = u] : u \in Users}
      \cup {[row EXCEPT !.counter_offer = <<100>>]}

\* PATCH /negotiations?id=eq.n as user uid
ApiUpdate(uid, n, new) ==
    /\ n \in NegIds
    /\ LET result == UpdateOutcome(uid, n, TRUE, new)
       IN  /\ negotiations' = Updated(n, new, result)
           /\ last' = Call("apiUpdate", uid, n, result)
    /\ UNCHANGED <<schema, rowLimit, viewVars, listVars, geoVars, restVars>>

\* ------------------------------------------------------------------------
\* Listing status: MyListings, Listings and WalletConnectDialog
\* ------------------------------------------------------------------------

\* supabase.from('scrap_listings').select(..) as loaded by a page
Loaded ==
    [l \in ListingIds |-> listingStatus[l]]

NothingSelected ==
    [id |-> "none", dialog |-> FALSE]

\* MyListings mounts: fetchListings .eq('seller_id', user.id), any status
MyFetchListings ==
    /\ \E net \in BOOLEAN :
         myListings' = IF net THEN Loaded ELSE [l \in ListingIds |-> "none"]
    /\ mySelected' = NothingSelected
    /\ UNCHANGED <<listingStatus, allListings, allSelected, transfers, negVars, geoVars, restVars>>

\* MyListings renders a card unless the loaded status is 'deleted'
MyCard(l) ==
    myListings[l] \notin {"none", "deleted"}

DeleteUpdateMut(uid, id) ==
    [k \in DOMAIN listingStatus |->
       IF ListingSeller(k) = uid THEN "deleted" ELSE listingStatus[k]]

\* .update({ status: 'deleted' }).eq('id', id).eq('seller_id', user.id):
\* the status column of scrap_listings after the statement
DeleteUpdate(uid, id) ==
    [k \in DOMAIN listingStatus |->
       IF k = id /\ ListingSeller(k) = uid THEN "deleted" ELSE listingStatus[k]]

\* MyListings.handleDeleteListing: .update({status: 'deleted'})
\* .eq('id', id).eq('seller_id', user.id), then the row leaves the list
HandleDeleteListing(l) ==
    /\ MyCard(l)
    /\ ~mySelected.dialog
    /\ \E net \in BOOLEAN :
         IF net
         THEN /\ listingStatus' = DeleteUpdate(Seller, l)
              /\ myListings' = [myListings EXCEPT ![l] = "none"]
         ELSE UNCHANGED <<listingStatus, myListings>>
    /\ UNCHANGED <<mySelected, allListings, allSelected, transfers, negVars, geoVars, restVars>>

\* MyListings.handleMarkAsSold: shown unless the loaded status is 'sold'
MyHandleMarkAsSold(l) ==
    /\ MyCard(l)
    /\ myListings[l] # "sold"
    /\ ~mySelected.dialog
    /\ mySelected' = [id |-> l, dialog |-> TRUE]
    /\ UNCHANGED <<listingStatus, myListings, allListings, allSelected, transfers, negVars, geoVars, restVars>>

\* the row handleWalletSuccess writes: .update({status: 'sold'})
\* .eq('id', selectedListingId).eq('seller_id', user.id)
SoldStatus(current) ==
    "sold"

\* connectWallet: tokenContract.erc20.transfer(userAddress, "1") and its
\* receipt, made for the listing the dialog was opened for
Transfer(id) ==
    /\ transfers[id] < MaxTransfers
    /\ transfers' = [transfers EXCEPT ![id] = @ + 1]

\* WalletConnectDialog.connectWallet under MyListings: a failed transfer
\* leaves the dialog open; after the receipt onSuccess = handleWalletSuccess
\* runs and the dialog closes
MyConnectWallet ==
    /\ mySelected.dialog
    /\ \E transfer \in BOOLEAN, net \in BOOLEAN :
         IF ~transfer
         THEN UNCHANGED <<listingStatus, myListings, mySelected, transfers>>
         ELSE /\ Transfer(mySelected.id)
              /\ mySelected' = [mySelected EXCEPT !.dialog = FALSE]
              /\ IF net
                 THEN /\ listingStatus' =
                           [listingStatus EXCEPT ![mySelected.id] = SoldStatus(@)]
                      /\ myListings' =
                           [l \in ListingIds |->
                              IF l = mySelected.id /\ myListings[l] # "none"
                              THEN "sold" ELSE myListings[l]]
                 ELSE UNCHANGED <<listingStatus, myListings>>
    /\ UNCHANGED <<allListings, allSelected, negVars, geoVars, restVars>>

\* closing the wallet dialog of MyListings without claiming
MyCloseWallet ==
    /\ mySelected.dialog
    /\ mySelected' = [mySelected EXCEPT !.dialog = FALSE]
    /\ UNCHANGED <<listingStatus, myListings, allListings, allSelected, transfers, negVars, geoVars, restVars>>

\* MyListings (render): a card for every loaded listing whose status is not
\* deleted
MyListingsShown(list) ==
    {l \in ListingIds : list[l] # "none" /\ list[l] # "deleted"}

\* Listings (render): a card for every loaded listing, with its status as
\* a badge
AllListingsShown(list) ==
    {l \in ListingIds : list[l] # "none"}

\* Listings.fetchData: every listing, the status filter is commented out
AllFetchData ==
    /\ \E net \in BOOLEAN :
         allListings' = IF net THEN Loaded ELSE [l \in ListingIds |-> "none"]
    /\ allSelected' = NothingSelected
    /\ UNCHANGED <<listingStatus, myListings, mySelected, transfers, negVars, geoVars, restVars>>

\* Listings.handleMarkAsSold: the button is rendered for the owner while
\* the loaded status is 'active'
AllHandleMarkAsSold(l) ==
    /\ allListings[l] = "active"
    /\ ~allSelected.dialog
    /\ allSelected' = [id |-> l, dialog |-> TRUE]
    /\ UNCHANGED <<listingStatus, myListings, mySelected, allListings, transfers, negVars, geoVars, restVars>>

\* WalletConnectDialog.connectWallet under Listings
AllConnectWallet ==
    /\ allSelected.dialog
    /\ \E transfer \in BOOLEAN, net \in BOOLEAN :
         IF ~transfer
         THEN UNCHANGED <<listingStatus, allListings, allSelected, transfers>>
         ELSE /\ Transfer(allSelected.id)
              /\ allSelected' = [allSelected EXCEPT !.dialog = FALSE]
              /\ IF net
                 THEN /\ listingStatus' =
                           [listingStatus EXCEPT ![allSelected.id] = SoldStatus(@)]
                      /\ allListings' =
                           [l \in ListingIds |->
                              IF l = allSelected.id /\ allListings[l] # "none"
                              THEN "sold" ELSE allListings[l]]
                 ELSE UNCHANGED <<listingStatus, allListings>>
    /\ UNCHANGED <<myListings, mySelected, negVars, geoVars, restVars>>

\* closing the wallet dialog of Listings without claiming
AllCloseWallet ==
    /\ allSelected.dialog
    /\ allSelected' = [allSelected EXCEPT !.dialog = FALSE]
    /\ UNCHANGED <<listingStatus, myListings, mySelected, allListings, transfers, negVars, geoVars, restVars>>

\* the Listings page whose handleMarkAsSold writes the status itself: the
\* button is rendered for the owner while the loaded status is 'active' and
\* no wallet dialog is opened
DirectMarkAsSold(l) ==
    /\ allListings[l] = "active"
    /\ ~allSelected.dialog
    /\ \E net \in BOOLEAN :
         IF net
         THEN /\ listingStatus' = [listingStatus EXCEPT ![l] = SoldStatus(@)]
              /\ allListings' = [allListings EXCEPT ![l] = "sold"]
         ELSE UNCHANGED <<listingStatus, allListings>>
    /\ UNCHANGED <<myListings, mySelected, allSelected, transfers, negVars, geoVars, restVars>>

\* ------------------------------------------------------------------------
\* Coordinates: update_geolocation and get_listing_coordinates
\* ------------------------------------------------------------------------
Lats ==
    (0 - MaxLat)..MaxLat

Lngs ==
    (0 - MaxLng)..MaxLng

\* PostGIS ST_MakePoint(x, y)
ST_MakePoint(x, y) ==
    <<x, y>>

\* PostGIS ST_X(point)
ST_X(point) ==
    point[1]

ST_YMut(point) ==
    point[1]

\* PostGIS ST_Y(point)
ST_Y(point) ==
    point[2]

\* update_geolocation(listing_id, lat, lng):
\* SET geolocation = ST_SetSRID(ST_MakePoint(lng, lat), 4326)
update_geolocation(listing_id, lat, lng) ==
    /\ geolocation' = [geolocation EXCEPT ![listing_id] = ST_MakePoint(lng, lat)]
    /\ geoArgs' = [geoArgs EXCEPT ![listing_id] = <<[lat |-> lat, lng |-> lng]>>]
    /\ geoResult' = <<[fn |-> "update_geolocation", found |-> TRUE]>>
    /\ UNCHANGED <<negVars, listVars, restVars>>

\* the latitude and longitude keys of the JSON get_listing_coordinates builds
ListingCoordinates(l) ==
    [fn |-> "get_listing_coordinates", id |-> l,
     latitude |-> IF geolocation[l] # NULL THEN <<ST_Y(geolocation[l])>> ELSE NULL,
     longitude |-> IF geolocation[l] # NULL THEN <<ST_X(geolocation[l])>> ELSE NULL]

\* get_listing_coordinates(listing_id)
get_listing_coordinates(listing_id) ==
    /\ geoResult' = <<ListingCoordinates(listing_id)>>
    /\ UNCHANGED <<geolocation, geoArgs, negVars, listVars, restVars>>

\* get_listings_with_coordinates(): one row for every listing whose status is
\* not 'deleted'; the column named latitude is ST_X, the one named longitude
\* is ST_Y of the stored point
ListingsWithCoordinates ==
    [l \in {k \in ListingIds : listingStatus[k] # "deleted"} |->
       [latitude |-> IF geolocation[l] # NULL THEN <<ST_X(geolocation[l])>> ELSE NULL,
        longitude |-> IF geolocation[l] # NULL THEN <<ST_Y(geolocation[l])>> ELSE NULL]]

get_listings_with_coordinates ==
    /\ geoResult' = <<[fn |-> "get_listings_with_coordinates",
                       rows |-> ListingsWithCoordinates]>>
    /\ UNCHANGED <<geolocation, geoArgs, negVars, listVars, restVars>>

\* ScrapPickupMap.fetchAllListings: the markers built from the rows whose
\* latitude and longitude are numbers
ListingMarkers(rows) ==
    [l \in {k \in DOMAIN rows : rows[k].latitude # NULL /\ rows[k].longitude # NULL} |->
       [lat |-> rows[l].latitude[1], lng |-> rows[l].longitude[1]]]

\* ------------------------------------------------------------------------
\* CreateListing.onSubmit
\* ------------------------------------------------------------------------
NoSubmit ==
    [path |-> "none", failed |-> FALSE, before |-> 0]

\* the rows of the mixed-material path: the parent first; the loop over the
\* materials runs only after the parent was inserted and goes on after a
\* failed insert
MultiInserted(n, ok) ==
    IF ~ok[0] THEN <<>>
    ELSE <<"parent">> \o [i \in 1..Cardinality({j \in 1..n : ok[j]}) |-> "material"]

\* the rows of the standard path
SingleInserted(ok) ==
    IF ok[0] THEN <<"single">> ELSE <<>>

\* onSubmit with a user and a selected location: create_geography_point,
\* then the inserts; ok[0] answers the parent (or the single) insert, ok[j]
\* the insert of material j. A thrown error skips navigate('/listings').
CreateOnSubmit(multi, n, geo, ok) ==
    /\ createPage = "create"
    /\ LET rows == IF ~geo THEN <<>>
                   ELSE IF multi THEN MultiInserted(n, ok) ELSE SingleInserted(ok)
           failed == ~geo \/ ~ok[0] \/ (multi /\ \E j \in 1..n : ~ok[j])
           thrown == ~geo \/ (~multi /\ ~ok[0])
       IN  /\ Len(scrapInserted) + Len(rows) <= MaxCreated
           /\ scrapInserted' = scrapInserted \o rows
           /\ createPage' = IF thrown THEN "create" ELSE "listings"
           /\ lastSubmit' = [path |-> IF multi THEN "multi" ELSE "single",
                             failed |-> failed, before |-> Len(scrapInserted)]
    /\ UNCHANGED <<imageVars, negVars, listVars, geoVars, locationVars, requestVars,
                   processingVars, tabVars>>

\* the files the user can choose
ImageFiles ==
    {"f1", "f2", "f3"}

\* an image URL: the empty string, URL.createObjectURL(file), or the URL
\* uploadImageToGitHub(file) resolves to
NoImage ==
    [kind |-> "empty", file |-> "none"]

LocalUrl(file) ==
    [kind |-> "blob", file |-> file]

GitHubUrl(file) ==
    [kind |-> "github", file |-> file]

\* CreateListing.handleImageSelected: an empty URL is only logged
handleImageSelected(url) ==
    IF url # NoImage THEN url ELSE imageUrl

\* ImageUploader's effect on [initialImage], with initialImage={field.value}:
\* a changed, non-empty form value replaces the image shown
InitialImageEffect(shown, formBefore, formAfter) ==
    IF formAfter # formBefore /\ formAfter # NoImage /\ formAfter # shown
    THEN formAfter ELSE shown

\* onDrop -> handleImageUpload(file): the dropzone is rendered only while no
\* image is shown; the preview and the form get the local URL and the upload
\* starts in the background
HandleImageUpload(file) ==
    /\ uploadedImage = NoImage
    /\ Len(uploads) < MaxUploads
    /\ imageUrl' = handleImageSelected(LocalUrl(file))
    /\ uploadedImage' = InitialImageEffect(LocalUrl(file), imageUrl, imageUrl')
    /\ uploads' = Append(uploads, file)
    /\ selectedFile' = file
    /\ UNCHANGED <<scrapInserted, createPage, lastSubmit, negVars, listVars, geoVars,
                   locationVars, requestVars, processingVars, tabVars>>

\* removeImage: the preview is cleared and onImageSelected("") is called
RemoveImage ==
    /\ uploadedImage # NoImage
    /\ imageUrl' = handleImageSelected(NoImage)
    /\ uploadedImage' = InitialImageEffect(NoImage, imageUrl, imageUrl')
    /\ selectedFile' = "none"
    /\ UNCHANGED <<uploads, scrapInserted, createPage, lastSubmit, negVars, listVars,
                   geoVars, locationVars, requestVars, processingVars, tabVars>>

\* the background upload i settles: .then calls onImageSelected(githubUrl),
\* .catch keeps what is there
UploadSettled(i) ==
    /\ i \in DOMAIN uploads
    /\ \E ok \in BOOLEAN :
         /\ imageUrl' = IF ok THEN handleImageSelected(GitHubUrl(uploads[i])) ELSE imageUrl
         /\ uploadedImage' = InitialImageEffect(uploadedImage, imageUrl, imageUrl')
    /\ uploads' = [j \in 1..(Len(uploads) - 1) |->
                     IF j < i THEN uploads[j] ELSE uploads[j + 1]]
    /\ UNCHANGED <<selectedFile, scrapInserted, createPage, lastSubmit, negVars,
                   listVars, geoVars, locationVars, requestVars, processingVars, tabVars>>

\* the Sell Scrap link: /create-listing with an empty form
OpenCreateListing ==
    /\ createPage = "listings"
    /\ createPage' = "create"
    /\ UNCHANGED <<scrapInserted, lastSubmit, imageVars, negVars, listVars, geoVars,
                   locationVars, requestVars, processingVars, tabVars>>

\* ------------------------------------------------------------------------
\* ScrapPickupMap.getUserLocation, mounted by CreateListing without
\* initialLocation, readOnly or showAllListings
\* ------------------------------------------------------------------------

\* the body of getUserLocation: a 10 s timer whose callback reads the
\* gettingCurrentLocation of the render that made the callback, and one
\* getCurrentPosition call. getUserLocation is a useCallback on
\* gettingCurrentLocation, so the effect that lists it is due again whenever
\* that state changes.
GetUserLocation ==
    /\ Len(locationRequests) < MaxLocationRequests
    /\ locationRequests' = Append(locationRequests,
                                  [captured |-> gettingCurrentLocation,
                                   timer |-> TRUE, pending |-> TRUE])
    /\ gettingCurrentLocation' = TRUE
    /\ effectDue' = ~gettingCurrentLocation

\* useEffect(() => { if (!initialLocation && !readOnly && !currentLocation
\* && !showAllListings) getUserLocation(); }, [.., getUserLocation, currentLocation, ..])
LocationEffect ==
    /\ effectDue
    /\ IF ~currentLocation
       THEN GetUserLocation
       ELSE /\ effectDue' = FALSE
            /\ UNCHANGED <<locationRequests, gettingCurrentLocation>>
    /\ UNCHANGED <<currentLocation, locationFailed, negVars, listVars, geoVars, createVars, requestVars,
                   processingVars, tabVars>>

\* the Use My Location button, disabled while gettingCurrentLocation
UseMyLocation ==
    /\ ~gettingCurrentLocation
    /\ ~effectDue
    /\ GetUserLocation
    /\ locationFailed' = FALSE
    /\ UNCHANGED <<currentLocation, negVars, listVars, geoVars, createVars, requestVars,
                   processingVars, tabVars>>

\* handleMapClick: the user picks the location on the map
HandleMapClick ==
    /\ ~effectDue
    /\ currentLocation' = TRUE
    /\ effectDue' = ~currentLocation
    /\ locationFailed' = FALSE
    /\ UNCHANGED <<gettingCurrentLocation, locationRequests, negVars, listVars, geoVars,
                   createVars, requestVars, processingVars, tabVars>>

\* the success callback of request r
PositionSuccess(r) ==
    /\ locationRequests[r].pending
    /\ locationRequests' = [locationRequests EXCEPT ![r].pending = FALSE, ![r].timer = FALSE]
    /\ currentLocation' = TRUE
    /\ gettingCurrentLocation' = FALSE
    /\ effectDue' = (effectDue \/ ~currentLocation \/ gettingCurrentLocation)
    /\ UNCHANGED <<locationFailed, negVars, listVars, geoVars, createVars, requestVars,
                   processingVars, tabVars>>

\* the error callback of request r: permission denied, position
\* unavailable or the 15 s timeout of the request
PositionError(r) ==
    /\ locationRequests[r].pending
    /\ locationRequests' = [locationRequests EXCEPT ![r].pending = FALSE, ![r].timer = FALSE]
    /\ gettingCurrentLocation' = FALSE
    /\ effectDue' = (effectDue \/ gettingCurrentLocation)
    /\ locationFailed' = TRUE
    /\ UNCHANGED <<currentLocation, negVars, listVars, geoVars, createVars, requestVars,
                   processingVars, tabVars>>

\* the 10 s timer of request r fires before either callback
LocationTimeout(r) ==
    /\ locationRequests[r].timer
    /\ locationRequests' = [locationRequests EXCEPT ![r].timer = FALSE]
    /\ IF locationRequests[r].captured
       THEN /\ gettingCurrentLocation' = FALSE
            /\ effectDue' = (effectDue \/ gettingCurrentLocation)
       ELSE UNCHANGED <<gettingCurrentLocation, effectDue>>
    /\ UNCHANGED <<currentLocation, locationFailed, negVars, listVars, geoVars, createVars, requestVars,
                   processingVars, tabVars>>

\* ------------------------------------------------------------------------
\* Initial states and specifications
\* ------------------------------------------------------------------------
Schemas ==
    {"rls_policies", "fix_negotiations"}

InitViews ==
    /\ negotiations = <<>>
    /\ page = [b \in Browsers |-> "home"]
    /\ open = [b \in Browsers |-> FALSE]
    /\ existingNegotiation = [b \in Browsers |-> NULL]
    /\ mgrNegotiations = [b \in Browsers |-> {}]
    /\ mgrError = [b \in Browsers |-> FALSE]
    /\ activeTab = [b \in Browsers |-> "pending"]
    /\ myNegotiations = [b \in Browsers |-> {}]
    /\ last = NoCall

InitListings ==
    /\ listingStatus = [l \in ListingIds |-> "active"]
    /\ myListings = [l \in ListingIds |-> "none"]
    /\ mySelected = NothingSelected
    /\ allListings = [l \in ListingIds |-> "none"]
    /\ allSelected = NothingSelected
    /\ transfers = [l \in ListingIds |-> 0]

InitGeo ==
    /\ geolocation = [l \in ListingIds |-> NULL]
    /\ geoArgs = [l \in ListingIds |-> NULL]
    /\ geoResult = NULL

InitCreate ==
    /\ scrapInserted = <<>>
    /\ createPage = "create"
    /\ lastSubmit = NoSubmit
    /\ imageUrl = NoImage
    /\ uploadedImage = NoImage
    /\ uploads = <<>>
    /\ selectedFile = "none"

\* the map has mounted: the effect is due
InitLocation ==
    /\ gettingCurrentLocation = FALSE
    /\ currentLocation = FALSE
    /\ locationRequests = <<>>
    /\ effectDue = TRUE
    /\ locationFailed = FALSE

InitRequests ==
    /\ listing = [b \in Browsers |-> "none"]
    /\ requestSent = [b \in Browsers |-> FALSE]
    /\ requestChecked = [b \in Browsers |-> FALSE]
    /\ listing_requests = <<>>

InitProcessing ==
    /\ processingId = [b \in Browsers |-> NULL]
    /\ updates = <<>>

NoFetch ==
    [browser |-> "none", tab |-> "none", activeTab |-> "none"]

InitTabs ==
    /\ fetches = <<>>
    /\ loading = [b \in Browsers |-> FALSE]
    /\ lastFetch = NoFetch

InitRest ==
    /\ InitCreate
    /\ InitLocation
    /\ InitRequests
    /\ InitProcessing
    /\ InitTabs

Init ==
    /\ schema \in Schemas
    /\ rowLimit = MaxNegotiations
    /\ InitViews
    /\ InitListings
    /\ InitGeo
    /\ InitRest

\* the views of one seller browser and one dealer browser
ViewStep(b) ==
    \/ OpenPickupRequest(b)
    \/ DlgOpen(b)
    \/ DlgClose(b)
    \/ \E offer \in Offers : DlgHandleSubmit(b, offer)
    \/ DlgAcceptCounter(b)
    \/ DlgDeclineCounter(b)
    \/ MgrFetch(b)
    \/ \E n \in NegIds : MgrAcceptOffer(b, n)
    \/ \E n \in NegIds : MgrRejectOffer(b, n)
    \/ \E n \in NegIds, amount \in Offers : MgrCounterOffer(b, n, amount)
    \/ OpenMyNegotiations(b)
    \/ \E tab \in Statuses : MySetActiveTab(b, tab)
    \/ \E n \in NegIds : MyAcceptCounterOffer(b, n)
    \/ \E n \in NegIds : MyRejectCounterOffer(b, n)

Next ==
    \E b \in MainBrowsers : ViewStep(b)

Spec ==
    Init /\ [][Next]_vars

\* two browsers of the same dealer on the listing page
InitRace ==
    /\ schema \in Schemas
    /\ rowLimit = MaxRaceNegotiations
    /\ InitViews
    /\ InitListings
    /\ InitGeo
    /\ InitRest

NextRace ==
    \E b \in RaceBrowsers :
       \/ OpenPickupRequest(b)
       \/ DlgOpen(b)
       \/ DlgClose(b)
       \/ \E offer \in Offers : DlgHandleSubmit(b, offer)

SpecRace ==
    InitRace /\ [][NextRace]_vars

\* any authenticated user calling the data API
InitApi ==
    /\ schema \in Schemas
    /\ rowLimit = MaxApiNegotiations
    /\ InitViews
    /\ InitListings
    /\ InitGeo
    /\ InitRest

NextApi ==
    \/ \E uid \in Users, dealer \in Users, seller \in Users : ApiInsert(uid, dealer, seller)
    \/ \E uid \in Users, dealer \in Users, seller \in Users : InsertNegotiation(uid, dealer, seller)
    \/ \E uid \in Users, n \in NegIds :
         \E new \in ApiPatches(negotiations[n]) : ApiUpdate(uid, n, new)

SpecApi ==
    InitApi /\ [][NextApi]_vars

\* the listing pages of the seller
NextListings ==
    \/ MyFetchListings
    \/ \E l \in ListingIds : HandleDeleteListing(l)
    \/ \E l \in ListingIds : MyHandleMarkAsSold(l)
    \/ MyConnectWallet
    \/ MyCloseWallet
    \/ AllFetchData
    \/ \E l \in ListingIds : AllHandleMarkAsSold(l)
    \/ AllConnectWallet
    \/ AllCloseWallet

SpecListings ==
    Init /\ [][NextListings]_vars

\* the seller answers the offers of a dealer in NegotiationsManager, with the
\* amounts the counter offer field accepts
NextCounter ==
    \/ \E b \in MainBrowsers :
          \/ OpenPickupRequest(b)
          \/ DlgOpen(b)
          \/ DlgClose(b)
          \/ \E offer \in Offers : DlgHandleSubmit(b, offer)
          \/ DlgAcceptCounter(b)
          \/ DlgDeclineCounter(b)
          \/ MgrFetch(b)
          \/ \E n \in NegIds : MgrAcceptOffer(b, n)
          \/ \E n \in NegIds : MgrRejectOffer(b, n)
          \/ \E n \in NegIds, amount \in CounterAmounts : MgrCounterOffer(b, n, amount)

SpecCounter ==
    Init /\ [][NextCounter]_vars

\* offers of a dealer arriving on one listing, and the seller answering them
\* in NegotiationsManager with the updates in flight
NextProcessing ==
    \/ ApiInsert(Dealer, Dealer, Seller)
    \/ OpenPickupRequest("sb")
    \/ \E n \in NegIds, op \in {"mgrAccept", "mgrReject", "mgrCounter"}, amount \in Offers :
          MgrSend("sb", n, op, amount)
    \/ \E i \in 1..MaxUpdates : MgrAnswer(i)

SpecProcessing ==
    InitRace /\ [][NextProcessing]_vars

\* a dealer switching the tabs of My Negotiations with the fetches in flight
NextTabs ==
    \/ ApiInsert(Dealer, Dealer, Seller)
    \/ OpenMyNegotiations("db1")
    \/ \E tab \in Statuses : MySelectTab("db1", tab)
    \/ \E i \in 1..MaxFetches : MyFetchAnswer(i)

SpecTabs ==
    Init /\ [][NextTabs]_vars

\* the image field of the manual tab of CreateListing
NextImage ==
    \/ \E file \in ImageFiles : HandleImageUpload(file)
    \/ RemoveImage
    \/ \E i \in 1..MaxUploads : UploadSettled(i)

SpecImage ==
    Init /\ [][NextImage]_vars

\* the pages that show listings, while the seller deletes listings
NextShown ==
    \/ MyFetchListings
    \/ \E l \in ListingIds : HandleDeleteListing(l)
    \/ AllFetchData
    \/ \E lat \in Lats, lng \in Lngs : update_geolocation(NegListing, lat, lng)
    \/ get_listings_with_coordinates

SpecShown ==
    Init /\ [][NextShown]_vars

\* a dealer on the page of a listing while the seller deletes listings or
\* marks them sold
NextStale ==
    \/ OpenPickupRequest("db1")
    \/ DlgOpen("db1")
    \/ DlgClose("db1")
    \/ \E offer \in Offers : DlgHandleSubmit("db1", offer)
    \/ MyFetchListings
    \/ \E l \in ListingIds : HandleDeleteListing(l)
    \/ AllFetchData
    \/ \E l \in ListingIds : DirectMarkAsSold(l)

SpecStale ==
    Init /\ [][NextStale]_vars

\* one buyer in two browsers on the page of a listing, sending purchase
\* requests while the seller deletes listings
NextRequests ==
    \/ \E b \in RaceBrowsers :
          \/ OpenPickupRequest(b)
          \/ \E quantity \in Offers, price \in Offers : RequestCheck(b, quantity, price)
          \/ RequestInsert(b)
    \/ MyFetchListings
    \/ \E l \in ListingIds : HandleDeleteListing(l)

SpecRequests ==
    Init /\ [][NextRequests]_vars

\* the listing pages of the seller, with the Listings page that marks a
\* listing sold without the wallet dialog
NextSold ==
    \/ NextListings
    \/ \E l \in ListingIds : DirectMarkAsSold(l)

SpecSold ==
    Init /\ [][NextSold]_vars

\* the coordinate functions
NextGeo ==
    \/ \E l \in ListingIds, lat \in Lats, lng \in Lngs : update_geolocation(l, lat, lng)
    \/ \E l \in ListingIds : get_listing_coordinates(l)

SpecGeo ==
    Init /\ [][NextGeo]_vars

\* the coordinate functions, the list function of the map and the soft delete
NextMap ==
    \/ \E l \in ListingIds, lat \in Lats, lng \in Lngs : update_geolocation(l, lat, lng)
    \/ \E l \in ListingIds : get_listing_coordinates(l)
    \/ get_listings_with_coordinates
    \/ MyFetchListings
    \/ \E l \in ListingIds : HandleDeleteListing(l)

SpecMap ==
    Init /\ [][NextMap]_vars


\* creating listings
NextCreate ==
    \/ \E multi \in BOOLEAN, n \in 1..MaxMaterials, geo \in BOOLEAN :
         \E ok \in [0..n -> BOOLEAN] :
            /\ ~multi => n = 1 /\ ok[1]
            /\ CreateOnSubmit(multi, n, geo, ok)
    \/ OpenCreateListing

SpecCreate ==
    Init /\ [][NextCreate]_vars

\* the map of CreateListing asking for the position of the user
NextLocation ==
    \/ LocationEffect
    \/ UseMyLocation
    \/ HandleMapClick
    \/ \E r \in DOMAIN locationRequests : PositionSuccess(r)
    \/ \E r \in DOMAIN locationRequests : PositionError(r)
    \/ \E r \in DOMAIN locationRequests : LocationTimeout(r)

SpecLocation ==
    Init /\ [][NextLocation]_vars

\* ------------------------------------------------------------------------
\* Properties
\* ------------------------------------------------------------------------

\* the negotiation the last call was about, when it exists
LastRow ==
    negotiations[last.neg]

LastOnRow ==
    last.neg \in NegIds

\* C1: once the status of a negotiation is accepted or rejected, no step of
\* the views changes it.
C1_TerminalStatusFinal ==
    [][\A n \in NegIds :
         negotiations[n].status \in Terminal
           => negotiations'[n].status = negotiations[n].status]_vars

\* C2: for every (listing, dealer) pair at most one negotiation is pending.
C2_OnePendingPerPair ==
    \A l \in ListingIds, d \in Users :
       Cardinality({n \in NegIds : /\ negotiations[n].listing_id = l
                                   /\ negotiations[n].dealer_id = d
                                   /\ negotiations[n].status = "pending"}) <= 1

DocumentedEdges ==
    {<<"pending", "countered">>, <<"pending", "accepted">>, <<"pending", "rejected">>,
     <<"countered", "accepted">>, <<"countered", "rejected">>}

C4_OnlyTheOtherPartyAdvances ==
    /\ LastOnRow
    /\ last.result = "ok"
    /\ LastRow.status # last.from
    => /\ last.from = "pending" => last.user = LastRow.seller_id
       /\ last.from = "countered" => last.user = LastRow.dealer_id

\* C5: an update sent by a user who is neither the dealer nor the seller of
\* a negotiation leaves the row unchanged.
C5_NoCrossUserMutation ==
    [][\A n \in NegIds :
         /\ last'.op = "apiUpdate"
         /\ last'.user # negotiations[n].dealer_id
         /\ last'.user # negotiations[n].seller_id
         => negotiations'[n] = negotiations[n]]_vars

\* a third user has sent an update for a negotiation of two other users
C5_Witness ==
    /\ LastOnRow
    /\ last.op = "apiUpdate"
    /\ last.user = Other
    /\ LastRow.dealer_id # Other
    /\ LastRow.seller_id # Other
    /\ last.result = "nomatch"

\* C6: a row inserted by a user, through the table or through
\* insert_negotiation, has that user as its dealer_id.
C6_InsertedByItsDealer ==
    /\ LastOnRow
    /\ last.op \in {"apiInsert", "insert_negotiation"}
    /\ last.result = "ok"
    => LastRow.dealer_id = last.user

\* C7: when the dealer of a countered negotiation accepts (declines) the
\* counter offer in NegotiationDialog or MyNegotiations and the request is
\* answered, the stored status is accepted (rejected).
C7_DealerAnswersCounter ==
    /\ LastOnRow
    /\ last.from = "countered"
    /\ last.user = LastRow.dealer_id
    /\ last.result # "net_error"
    => /\ last.op \in {"dlgAccept", "myAccept"} => LastRow.status = "accepted"
       /\ last.op \in {"dlgDecline", "myReject"} => LastRow.status = "rejected"

\* C8: when the seller presses Accept (Decline) on a pending negotiation in
\* MyNegotiations and the page reports success, the stored status is
\* accepted (rejected).
C8_SellerAnswersPending ==
    /\ LastOnRow
    /\ last.from = "pending"
    /\ last.user = LastRow.seller_id
    /\ ~IsError(last.result)
    => /\ last.op = "myAccept" => LastRow.status = "accepted"
       /\ last.op = "myReject" => LastRow.status = "rejected"

\* C9: a sold listing never becomes active or pending_pickup again and the
\* status of a deleted listing never changes.
C9_TerminalListingStatus ==
    [][\A l \in ListingIds :
         /\ listingStatus[l] = "sold"
              => listingStatus'[l] \notin {"active", "pending_pickup"}
         /\ listingStatus[l] = "deleted"
              => listingStatus'[l] = "deleted"]_vars

\* C10: for a listing whose point was stored by update_geolocation(lat, lng),
\* get_listing_coordinates answers latitude = lat and longitude = lng.
C10_CoordinatesRoundTrip ==
    /\ geoResult # NULL
    /\ geoResult[1].fn = "get_listing_coordinates"
    /\ geoArgs[geoResult[1].id] # NULL
    => /\ geoResult[1].latitude = <<geoArgs[geoResult[1].id][1].lat>>
       /\ geoResult[1].longitude = <<geoArgs[geoResult[1].id][1].lng>>

\* the coordinates of a stored point with lat # lng have been read
C10_Witness ==
    /\ geoResult # NULL
    /\ geoResult[1].fn = "get_listing_coordinates"
    /\ geoArgs[geoResult[1].id] # NULL
    /\ geoArgs[geoResult[1].id][1].lat # geoArgs[geoResult[1].id][1].lng
    /\ geoResult[1].latitude # NULL

\* C11: for every listing that is not deleted and has a stored point,
\* get_listings_with_coordinates answers the latitude and the longitude that
\* get_listing_coordinates answers, and the marker built from the row is at
\* the stored (lat, lng).
C11_ListEqualsSingle ==
    /\ geoResult # NULL
    /\ geoResult[1].fn = "get_listings_with_coordinates"
    => \A l \in DOMAIN geoResult[1].rows :
         geolocation[l] # NULL
           => /\ geoResult[1].rows[l].latitude = ListingCoordinates(l).latitude
              /\ geoResult[1].rows[l].longitude = ListingCoordinates(l).longitude
              /\ geoArgs[l] # NULL
                   => ListingMarkers(geoResult[1].rows)[l] =
                        [lat |-> geoArgs[l][1].lat, lng |-> geoArgs[l][1].lng]

\* C12: a step that deletes a listing keeps every row of scrap_listings,
\* sets the status of that one listing of the current user to deleted and
\* changes no other listing and no other field.
C12_SoftDeleteFrame ==
    [][\A l \in ListingIds :
         listingStatus[l] # "deleted" /\ listingStatus'[l] = "deleted"
           => /\ DOMAIN listingStatus' = DOMAIN listingStatus
              /\ ListingSeller(l) = Seller
              /\ \A k \in ListingIds \ {l} : listingStatus'[k] = listingStatus[k]
              /\ geolocation' = geolocation]_vars

\* a listing with a stored point has been deleted next to one that is not
C12_Witness ==
    \E l \in ListingIds, k \in ListingIds :
       /\ listingStatus[l] = "deleted"
       /\ myListings[l] = "none"
       /\ geolocation[l] # NULL
       /\ listingStatus[k] = "active"
       /\ geolocation[k] # NULL

\* C13: when a remote call of onSubmit has failed, the rows of scrap_listings
\* are the ones from before the submit and the page is still the form.
C13_FailureKeepsPriorState ==
    lastSubmit.failed
      => /\ Len(scrapInserted) = lastSubmit.before
         /\ createPage = "create"

\* C14: after a geolocation request has failed, no further request is
\* issued until the user acts.
C14_NoAutomaticRetry ==
    [][locationFailed /\ locationFailed'
         => Len(locationRequests') = Len(locationRequests)]_vars

\* C15: the treasury transfers at most one token for a listing.
C15_OneTransferPerListing ==
    \A l \in ListingIds : transfers[l] <= 1

\* C16: a listing whose stored status is sold has had its reward transfer
\* confirmed.
C16_SoldAfterTransfer ==
    \A l \in ListingIds : listingStatus[l] = "sold" => transfers[l] >= 1

\* C17: a negotiation or a purchase request is inserted only while the
\* listing it names has the status active, also when the listing was sold or
\* deleted after the page of the buyer loaded it.
C17_InsertedForActiveListing ==
    [][/\ Len(negotiations') > Len(negotiations)
          => listingStatus[negotiations'[Len(negotiations')].listing_id] = "active"
       /\ Len(listing_requests') > Len(listing_requests)
          => listingStatus[listing_requests'[Len(listing_requests')].listing_id] = "active"]_vars

C19_FormAfterRejection ==
    [][\A b \in Browsers :
         (/\ ~open[b]
          /\ open'[b]
          /\ existingNegotiation'[b] = LatestNegotiation(BrowserUser(b), NegListing)
          /\ \A n \in NegIds :
                (/\ negotiations[n].listing_id = NegListing
                 /\ negotiations[n].dealer_id = BrowserUser(b))
                => negotiations[n].status = "rejected")
         => existingNegotiation'[b] = NULL]_vars

\* C20: whenever the status of a negotiation is countered, its counter_offer
\* is set and greater than 0.
C20_CounteredHasCounterOffer ==
    \A n \in NegIds :
       negotiations[n].status = "countered"
       => /\ negotiations[n].counter_offer # NULL
          /\ negotiations[n].counter_offer[1] > 0

\* C21: while an update of a negotiation sent from a NegotiationsManager is
\* in flight, that view sends no second update of the same negotiation, also
\* when the user starts an action on another negotiation in the meantime.
C21_OneUpdateInFlight ==
    \A i, j \in DOMAIN updates :
       (/\ i # j
        /\ updates[i].mounted
        /\ updates[j].mounted
        /\ updates[i].browser = updates[j].browser)
       => updates[i].id # updates[j].id

\* C22: the answer to a fetch started for a tab selected before never
\* replaces the list of the tab selected now: every answer that set the list
\* of My Negotiations belonged to the tab that was active when it arrived.
C22_NoStaleTabAnswer ==
    lastFetch.tab = lastFetch.activeTab

\* C23: the image URL of the listing form is the URL of the image shown in
\* ImageUploader, which is the image the user selected last: it is empty
\* after removeImage, and an upload of an earlier file that completes late
\* does not put its URL in place of the newer one.
C23_ImageUrlOfShownImage ==
    /\ imageUrl.file = uploadedImage.file
    /\ imageUrl.file = selectedFile

\* C24: a listing that is soft-deleted when a page loads the listings is not
\* shown by that page: not in My Listings, not on the Listings browse page,
\* and not as a marker on the map.
C24_DeletedNotShown ==
    [][\A l \in ListingIds :
         /\ myListings'[l] = "deleted" => l \notin MyListingsShown(myListings')
         /\ allListings'[l] = "deleted" => l \notin AllListingsShown(allListings')
         /\ (/\ geoResult' # geoResult
             /\ geoResult' # NULL
             /\ geoResult'[1].fn = "get_listings_with_coordinates"
             /\ listingStatus[l] = "deleted")
            => l \notin DOMAIN ListingMarkers(geoResult'[1].rows)]_vars

====
